---- MODULE Spec2Model ----
(***************************************************************************)
(* Model of backend/server.py of espforge: the stage pipeline of a project *)
(* (create_project, approve_stage, generate_stage_content) and the wiring  *)
(* diagram generator (generate_ascii_wiring_diagram).                      *)
(*                                                                         *)
(* Python's None is the string "None"; an ISO timestamp is the string      *)
(* IsoFormat(n) of the n-th reading of the clock.                          *)
(***************************************************************************)
EXTENDS Integers, Sequences, FiniteSets, TLC

VARIABLES
    project,            \* the document of the project in db.projects
    loaded,             \* the document the last handler read with find_one
    response,           \* what the last request handler returned to its caller
    clock,              \* number of requests handled since the project was created
    component_ids,      \* the component_ids of the last wiring request
    result,             \* the dict generate_ascii_wiring_diagram returned for it
    left_used_pins,     \* used_pins as the last call left it (pin -> component id)
    left_next_gpio_idx, \* next_gpio_idx as the last call left it
    calls,              \* the wiring requests made so far, each with its result
    inflight            \* the requests between their find_one and their update_one

pipeline_vars == <<project, loaded, response, clock>>

wiring_vars == <<component_ids, result, left_used_pins, left_next_gpio_idx, calls>>

vars == <<project, loaded, response, clock,
          component_ids, result, left_used_pins, left_next_gpio_idx, calls, inflight>>

\* ------------------------------------------------------------------ bounds

\* At most MaxClock requests are handled after the creation of the project.
MaxClock == 2

\* A wiring request names at most MaxIds component IDs.
MaxIds == 3

\* A wiring request that is repeated names at most MaxRepeatedIds component IDs.
MaxRepeatedIds == 1

\* The most entries of a longer catalog one request selects.
MaxParts == 3

\* A wiring request of distinct components names at most MaxSelected of them.
MaxSelected == 4

\* ------------------------------------------------------------- Python values

None == "None"

\* The requests that run concurrently on the project.
Requests == {"r1", "r2"}

\* No request is between its find_one and its update_one.
NoRequests == [r \in Requests |-> [pc |-> "idle"]]

\* bool(x) of an Optional[str]: None and the empty string are falsy.
Truthy(x) == x \notin {None, ""}

\* datetime.now(timezone.utc).isoformat() at the n-th tick of the clock.
IsoFormat(n) == <<"t0", "t1", "t2", "t3", "t4", "t5", "t6", "t7", "t8">>[n + 1]

\* db.projects.update_one({"id": ...}, {"$set": update}): the named fields are
\* replaced in one atomic write, the others kept.
\* d[k] = v of a Python dict: the key is added when it is not there.
DictSet(d, k, v) == (k :> v) @@ d

\* d.get(k, {}) of a Python dict.
DictGet(d, k) == IF k \in DOMAIN d THEN d[k] ELSE <<>>

SetFields(doc, update) ==
    [k \in DOMAIN doc |-> IF k \in DOMAIN update THEN update[k] ELSE doc[k]]

\* ------------------------------------------------------------------ stages

\* class ProjectStage(str, Enum), in declaration order.
ProjectStage ==
    <<"idea", "requirements", "hardware", "architecture", "code", "explanation", "iteration">>

Stages == {ProjectStage[i] : i \in DOMAIN ProjectStage}

\* class StageData(BaseModel) with its defaults.
StageData(content, generated_at, user_approved, notes) ==
    [content |-> content, generated_at |-> generated_at,
     user_approved |-> user_approved, notes |-> notes]

DefaultStageData == StageData(None, None, FALSE, None)

\* The default_factory of Project.stages.
DefaultStages ==
    [s \in Stages |-> IF s = "idea" THEN StageData(None, None, TRUE, None)
                      ELSE DefaultStageData]

\* Mutant of create_project: the idea record is written without user_approved=True.
create_project_idea_unapproved(name, idea, now) ==
    [name                 |-> name,
     idea                 |-> idea,
     description          |-> None,
     target_hardware      |-> "ESP32 DevKit V1",
     status               |-> "active",
     current_stage        |-> "idea",
     stages               |-> [DefaultStages EXCEPT !["idea"] = StageData(idea, now, FALSE, None)],
     selected_components  |-> <<>>,
     conversation_history |-> <<>>,
     created_at           |-> now,
     updated_at           |-> now]

\* create_project: Project(...) with its defaults, then the idea record.
create_project(name, idea, now) ==
    [name                 |-> name,
     idea                 |-> idea,
     description          |-> None,
     target_hardware      |-> "ESP32 DevKit V1",
     status               |-> "active",
     current_stage        |-> "idea",
     stages               |-> [DefaultStages EXCEPT !["idea"] = StageData(idea, now, TRUE, None)],
     selected_components  |-> <<>>,
     conversation_history |-> <<>>,
     created_at           |-> now,
     updated_at           |-> now]

\* The entries of PROJECT_TEMPLATES, with the fields instantiate_template reads.
Template_temperature_logger ==
    [id          |-> "temperature_logger",
     name        |-> "Temperature Logger",
     description |-> "Log temperature and humidity to Serial and optionally MQTT",
     components  |-> <<"esp32_devkit", "bme280", "breadboard", "jumper_wires">>,
     idea        |->
        "Build a temperature and humidity logger using BME280 sensor that outputs readings to Serial monitor every 5 seconds. Include WiFi connectivity for optional MQTT publishing to a home automation system."]

Template_oled_sensor_display ==
    [id          |-> "oled_sensor_display",
     name        |-> "OLED Sensor Display",
     description |-> "Display real-time sensor data on an OLED screen",
     components  |-> <<"esp32_devkit", "ssd1306", "dht22", "breadboard", "jumper_wires", "resistor_kit">>,
     idea        |->
        "Create a standalone sensor display unit using DHT22 temperature/humidity sensor and SSD1306 OLED display. Show current readings, min/max values, and a simple graph of recent measurements."]

Template_relay_controller ==
    [id          |-> "relay_controller",
     name        |-> "Smart Relay Controller",
     description |-> "Control a relay via button, timer, or web interface",
     components  |-> <<"esp32_devkit", "relay", "breadboard", "jumper_wires">>,
     idea        |->
        "Build a smart relay controller with multiple control modes: physical button, timer-based scheduling, and web interface. Include safety features like maximum on-time and state persistence across reboots."]

Template_battery_sensor_node ==
    [id          |-> "battery_sensor_node",
     name        |-> "Battery-Powered Sensor Node",
     description |-> "Low-power sensor that wakes periodically to send data",
     components  |-> <<"esp32_devkit", "ds18b20", "breadboard", "jumper_wires", "resistor_kit">>,
     idea        |->
        "Design a battery-optimized sensor node using DS18B20 temperature sensor. Implement deep sleep mode, wake every 15 minutes to read sensor and send data via WiFi, then return to sleep. Target battery life of 6+ months on 2xAA batteries."]

Template_motion_alarm ==
    [id          |-> "motion_alarm",
     name        |-> "Motion Detection Alarm",
     description |-> "PIR-based motion detector with buzzer alert and notifications",
     components  |-> <<"esp32_devkit", "pir_motion", "buzzer", "led_strip", "breadboard", "jumper_wires">>,
     idea        |->
        "Create a motion detection alarm system using HC-SR501 PIR sensor. When motion is detected, activate a buzzer, flash LED strip, and optionally send a notification via WiFi. Include arm/disarm functionality via button or web interface."]

Template_plant_monitor ==
    [id          |-> "plant_monitor",
     name        |-> "Smart Plant Monitor",
     description |-> "Monitor soil moisture, light, and environmental conditions",
     components  |-> <<"esp32_devkit", "soil_moisture", "dht22", "ssd1306", "relay", "water_pump", "breadboard", "jumper_wires", "resistor_kit">>,
     idea        |->
        "Build an automated plant care system that monitors soil moisture, temperature, and humidity. Display readings on OLED screen. Automatically water plants when soil is dry using a relay-controlled pump. Include configurable thresholds and manual override."]

PROJECT_TEMPLATES ==
    <<Template_temperature_logger,
      Template_oled_sensor_display,
      Template_relay_controller,
      Template_battery_sensor_node,
      Template_motion_alarm,
      Template_plant_monitor>>

\* Line 1316: the templates with the ID, in the list's order; next(..., None)
\* takes the first of them, or None when there is none.
FindTemplate(template_id) ==
    SelectSeq(PROJECT_TEMPLATES, LAMBDA t : t.id = template_id)

\* Lines 1320-1331 of instantiate_template: Project(...) with the template's name,
\* idea and components, then the idea record.
instantiate_template(template, now) ==
    [name                 |-> template.name,
     idea                 |-> template.idea,
     description          |-> template.description,
     target_hardware      |-> "ESP32 DevKit V1",
     status               |-> "active",
     current_stage        |-> "idea",
     stages               |-> [DefaultStages EXCEPT
                                 !["idea"] = StageData(template.idea, now, TRUE, None)],
     selected_components  |-> template.components,
     conversation_history |-> <<>>,
     created_at           |-> now,
     updated_at           |-> now]

\* What a handler returned: the HTTP status and the JSON body's fields (None for
\* a field the body does not hold). status 0: no response was produced.
Response(op, status, next_stage, content, stage, detail) ==
    [op |-> op, status |-> status, next_stage |-> next_stage,
     content |-> content, stage |-> stage, detail |-> detail]

\* --------------------------------------------------------- request inputs

ProjectName == "Plant Monitor"
IdeaText == "Monitor soil moisture"

\* approval.notes of a StageApproval.
NotesIn == {None, "", "n1"}

\* approval.approved of a StageApproval.
ApprovedIn == BOOLEAN

\* request.user_message of an LLMRequest.
UserMessages == {None, "", "m1"}

\* Texts the language model may return.
Contents == {"c1", "c2"}

LLMProvider == {"openai", "groq", "openrouter"}

ApiKeys == {None, "key"}

\* ------------------------------------------------------------ approve_stage

\* Lines 825-826: stages.get(prev_stage, {}).get('content').
StageContent(stages, s) ==
    IF s \in DOMAIN stages /\ "content" \in DOMAIN stages[s] THEN stages[s].content ELSE None

\* Mutant of NextStage: current_stage never moves backward.
NextStageNeverRetreats(stage, approved) ==
    LET stage_order == ProjectStage
        Idx(s) == CHOOSE i \in DOMAIN stage_order : stage_order[i] = s
    IN  IF approved /\ Idx(stage) < Len(stage_order)
        THEN IF Idx(project.current_stage) > Idx(stage) + 1
             THEN project.current_stage
             ELSE stage_order[Idx(stage) + 1]
        ELSE None

\* Mutant of NextStage: the test of approval.approved is missing.
NextStageIgnoringApproval(stage, approved) ==
    LET stage_order == ProjectStage
        current_idx == CHOOSE i \in DOMAIN stage_order : stage_order[i] = stage
    IN  IF current_idx < Len(stage_order) THEN stage_order[current_idx + 1] ELSE None

\* Lines 938-944: the stage after `stage` in stage_order when approved, else None.
NextStage(stage, approved) ==
    LET stage_order ==
            <<"idea", "requirements", "hardware", "architecture", "code", "explanation", "iteration">>
        current_idx == CHOOSE i \in DOMAIN stage_order : stage_order[i] = stage
    IN  IF approved /\ current_idx < Len(stage_order)
        THEN stage_order[current_idx + 1]
        ELSE None

\* Mutant of ApprovedStages: the notes are set to approval.notes whatever it is.
ApprovedStagesOverwritingNotes(stages, stage, approved, notes) ==
    LET stage_data == DictGet(stages, stage)
        flagged    == DictSet(stage_data, "user_approved", approved)
    IN  DictSet(stages, stage, DictSet(flagged, "notes", notes))

\* Mutant of ApprovedStages: a stage without content is not flagged as approved.
ApprovedStagesRequiringContent(stages, stage, approved, notes) ==
    LET stage_data == DictGet(stages, stage)
        flagged    == DictSet(stage_data, "user_approved",
                              approved /\ Truthy(StageContent(stages, stage)))
        noted      == IF Truthy(notes) THEN DictSet(flagged, "notes", notes) ELSE flagged
    IN  DictSet(stages, stage, noted)

\* Lines 930-936: the stages map with the named stage's flag and notes set.
ApprovedStages(stages, stage, approved, notes) ==
    LET stage_data == DictGet(stages, stage)
        flagged    == DictSet(stage_data, "user_approved", approved)
        noted      == IF Truthy(notes) THEN DictSet(flagged, "notes", notes) ELSE flagged
    IN  DictSet(stages, stage, noted)

\* Lines 946-951: the $set document of approve_stage.
ApproveUpdate(doc, stage, approved, notes, now) ==
    LET next_stage == NextStage(stage, approved)
        base == [stages     |-> ApprovedStages(doc.stages, stage, approved, notes),
                 updated_at |-> now]
    IN  IF Truthy(next_stage)
        THEN [stages |-> base.stages, updated_at |-> now, current_stage |-> next_stage]
        ELSE base

\* Lines 924-955, the whole handler: find_one, the update, the response.
approve_stage(stage, approved, notes) ==
    /\ clock < MaxClock
    /\ clock' = clock + 1
    /\ loaded' = project
    /\ project' = SetFields(project, ApproveUpdate(project, stage, approved, notes, IsoFormat(clock + 1)))
    /\ response' = Response("approve", 200, NextStage(stage, approved), None, None, None)
    /\ UNCHANGED wiring_vars
    /\ UNCHANGED inflight

\* --------------------------------------------------- generate_stage_content

\* Lines 845 and 851: the detail of the HTTPException(400) raised for a provider
\* that needs a key when the request has none.
CredentialMessage(provider) ==
    IF provider = "groq" THEN "Groq API key required" ELSE "OpenRouter API key required"

\* Lines 842-857 and the provider calls: what generate_llm_response can do.
\* A groq or openrouter request without a key raises HTTPException(400); any
\* call can return a text, raise an HTTPException carrying the provider's
\* status, raise another Exception (timeout, transport) or be cancelled.
LLMOutcomes(provider, api_key) ==
    IF provider \in {"groq", "openrouter"} /\ ~Truthy(api_key)
    THEN {[kind |-> "HTTPException", status |-> 400, text |-> CredentialMessage(provider)]}
    ELSE {[kind |-> "return", status |-> 200, text |-> c] : c \in Contents}
         \cup {[kind |-> "HTTPException", status |-> 401, text |-> "API error"],
               [kind |-> "Exception", status |-> 0, text |-> "timeout"],
               [kind |-> "CancelledError", status |-> 0, text |-> "cancelled"]}

\* str.upper() of a stage name.
StageUpper ==
    [idea |-> "IDEA", requirements |-> "REQUIREMENTS", hardware |-> "HARDWARE",
     architecture |-> "ARCHITECTURE", code |-> "CODE", explanation |-> "EXPLANATION",
     iteration |-> "ITERATION"]

\* Line 821: the stages generate_llm_response takes previous outputs from.
stages_order ==
    <<"idea", "requirements", "hardware", "architecture", "code", "explanation">>

\* Line 822: the index of the stage in stages_order, 0 for a stage not in it.
stage_idx(stage) ==
    IF \E i \in DOMAIN stages_order : stages_order[i] = stage
    THEN (CHOOSE i \in DOMAIN stages_order : stages_order[i] = stage) - 1
    ELSE 0

\* Lines 812-829: context_parts, the lines of the context generate_llm_response
\* sends to the language model, each line the sequence of its parts.
ContextParts(doc, stage) ==
    LET previous == SelectSeq(SubSeq(stages_order, 1, stage_idx(stage)),
                              LAMBDA s : Truthy(StageContent(doc.stages, s)))
    IN  <<<<"Project: ", doc.name>>, <<"Idea: ", doc.idea>>>>
        \o (IF Truthy(doc.description) THEN <<<<"Description: ", doc.description>>>> ELSE <<>>)
        \o <<<<"Target Hardware: ", doc.target_hardware>>>>
        \o [i \in DOMAIN previous |->
              <<"\n=== ", StageUpper[previous[i]], " ===\n", doc.stages[previous[i]].content>>]

\* Mutant of GeneratedStages: only the text and its time are replaced.
GeneratedStagesKeepingApproval(stages, stage, content, now) ==
    [stages EXCEPT ![stage] = [@ EXCEPT !.content = content, !.generated_at = now]]

\* Mutant of GeneratedStages: the key is the enum member's text, not its value.
GeneratedStagesKeyedByMember(stages, stage, content, now) ==
    DictSet(stages, "ProjectStage." \o stage, StageData(content, now, FALSE, None))

\* Lines 975-981: the stages map with the generated record.
GeneratedStages(stages, stage, content, now) ==
    DictSet(stages, stage, StageData(content, now, FALSE, None))

\* Mutant of GeneratedConversation: the user's turn is appended whatever
\* user_message is.
GeneratedConversationAlwaysAsking(conversation, stage, user_message, content) ==
    Append(Append(conversation, [role |-> "user", content |-> user_message, stage |-> stage]),
           [role |-> "assistant", content |-> content, stage |-> stage])

\* Lines 984-987: the conversation with the turns of this request appended.
GeneratedConversation(conversation, stage, user_message, content) ==
    LET asked == IF Truthy(user_message)
                 THEN Append(conversation, [role |-> "user", content |-> user_message, stage |-> stage])
                 ELSE conversation
    IN  Append(asked, [role |-> "assistant", content |-> content, stage |-> stage])

\* Mutant of GenerateUpdate: the $set also makes the generated stage the current one.
GenerateUpdateMovingStage(doc, stage, user_message, content, now) ==
    [stages               |-> GeneratedStages(doc.stages, stage, content, now),
     conversation_history |-> GeneratedConversation(doc.conversation_history, stage, user_message, content),
     updated_at           |-> now,
     current_stage        |-> stage]

\* Mutant of GenerateUpdate: the generated record is set in the stored stages map,
\* not in the map the handler loaded.
GenerateUpdateOnStoredDoc(doc, stage, user_message, content, now) ==
    [stages               |-> GeneratedStages(project.stages, stage, content, now),
     conversation_history |-> GeneratedConversation(doc.conversation_history, stage, user_message, content),
     updated_at           |-> now]

\* Lines 989-996: the $set document of generate_stage_content.
GenerateUpdate(doc, stage, user_message, content, now) ==
    [stages               |-> GeneratedStages(doc.stages, stage, content, now),
     conversation_history |-> GeneratedConversation(doc.conversation_history, stage, user_message, content),
     updated_at           |-> now]

\* Lines 1000-1002: `except Exception` turns every Exception into a 500; a
\* CancelledError is no Exception and leaves the handler without a response.
GenerateFailure(outcome) ==
    IF outcome.kind = "CancelledError"
    THEN Response("generate", 0, None, None, None, None)
    ELSE Response("generate", 500, None, None, None, <<"Generation failed: ", outcome.text>>)

\* Lines 974-998: the update after generate_llm_response returned `content`.
GenerateSucceeds(stage, user_message, content) ==
    /\ clock < MaxClock
    /\ clock' = clock + 1
    /\ loaded' = project
    /\ project' = SetFields(project, GenerateUpdate(project, stage, user_message, content, IsoFormat(clock + 1)))
    /\ response' = Response("generate", 200, None, content, stage, None)
    /\ UNCHANGED wiring_vars
    /\ UNCHANGED inflight

\* Mutant of GenerateFails: the user's turn is saved before the model is called.
GenerateFailsAfterSavingTurn(outcome) ==
    /\ clock < MaxClock
    /\ clock' = clock + 1
    /\ loaded' = project
    /\ response' = GenerateFailure(outcome)
    /\ project' = [project EXCEPT !.conversation_history =
                      Append(@, [role |-> "user", content |-> "m1", stage |-> "idea"])]
    /\ UNCHANGED wiring_vars
    /\ UNCHANGED inflight

\* Lines 964-972 and 1000-1002: generate_llm_response raised; nothing is written.
GenerateFails(outcome) ==
    /\ clock < MaxClock
    /\ clock' = clock + 1
    /\ loaded' = project
    /\ response' = GenerateFailure(outcome)
    /\ UNCHANGED project
    /\ UNCHANGED wiring_vars
    /\ UNCHANGED inflight

\* Lines 958-1002, the whole handler.
generate_stage_content(stage, user_message, provider, api_key) ==
    \E outcome \in LLMOutcomes(provider, api_key) :
        IF outcome.kind = "return"
        THEN GenerateSucceeds(stage, user_message, outcome.text)
        ELSE GenerateFails(outcome)

\* ------------------------------------------------------- request validation

\* A stage identifier that is no value of ProjectStage.
InvalidStages == {"deploy"}

\* Routes whose stage is declared a ProjectStage: the path parameter of
\* approve_stage (line 925) and LLMRequest.stage (line 110).
StageRoutes == {"approve", "generate"}

\* Mutant of RejectInvalidStage: the handler has touched the document before the
\* stage is found invalid.
RejectInvalidStageAfterTouch(route, stage) ==
    /\ stage \notin Stages
    /\ clock < MaxClock
    /\ clock' = clock + 1
    /\ project' = SetFields(project, [updated_at |-> IsoFormat(clock + 1)])
    /\ response' = Response("request_validation", 422, None, None, None, <<route, stage>>)
    /\ UNCHANGED loaded
    /\ UNCHANGED wiring_vars
    /\ UNCHANGED inflight

\* A request whose stage is no value of ProjectStage is answered 422 by the
\* validation of the declared parameter types; the handler is not entered.
RejectInvalidStage(route, stage) ==
    /\ stage \notin Stages
    /\ clock < MaxClock
    /\ clock' = clock + 1
    /\ response' = Response("request_validation", 422, None, None, None, <<route, stage>>)
    /\ UNCHANGED <<project, loaded>>
    /\ UNCHANGED wiring_vars
    /\ UNCHANGED inflight

\* ================================================================ wiring
\* generate_ascii_wiring_diagram and its data.

\* ESP32_PIN_MAP.
ESP32_PIN_MAP ==
    [i2c      |-> [SDA |-> "GPIO21", SCL |-> "GPIO22"],
     spi_vspi |-> [MOSI |-> "GPIO23", MISO |-> "GPIO19", SCK |-> "GPIO18", CS |-> "GPIO5"],
     spi_hspi |-> [MOSI |-> "GPIO13", MISO |-> "GPIO12", SCK |-> "GPIO14", CS |-> "GPIO15"],
     uart     |-> [TX |-> "GPIO1", RX |-> "GPIO3"],
     adc1     |-> <<"GPIO32", "GPIO33", "GPIO34", "GPIO35", "GPIO36", "GPIO39">>,
     digital_recommended |->
        <<"GPIO4", "GPIO5", "GPIO16", "GPIO17", "GPIO18", "GPIO19",
          "GPIO23", "GPIO25", "GPIO26", "GPIO27", "GPIO32", "GPIO33">>]

\* The entries of HARDWARE_LIBRARY (texts in ASCII: Ohm, deg and u stand for the
\* source's signs).
Comp_dht22 ==
    [id |-> "dht22", name |-> "DHT22", interface |-> "Digital (OneWire-like)",
     wiring |->
        <<<<"VCC", "3.3V or 5V">>,
          <<"GND", "GND">>,
          <<"DATA", "GPIO (with 10K pull-up)">>>>,
     notes |-> "Use 10K pull-up resistor between DATA and VCC"]

Comp_dht11 ==
    [id |-> "dht11", name |-> "DHT11", interface |-> "Digital",
     wiring |->
        <<<<"VCC", "3.3V or 5V">>,
          <<"GND", "GND">>,
          <<"DATA", "GPIO (with 10K pull-up)">>>>,
     notes |-> "Lower precision than DHT22, but cheaper"]

Comp_bme280 ==
    [id |-> "bme280", name |-> "BME280", interface |-> "I2C / SPI",
     wiring |->
        <<<<"VCC", "3.3V">>,
          <<"GND", "GND">>,
          <<"SDA", "GPIO21">>,
          <<"SCL", "GPIO22">>>>,
     notes |-> "Default I2C address: 0x76 or 0x77"]

Comp_ds18b20 ==
    [id |-> "ds18b20", name |-> "DS18B20", interface |-> "OneWire",
     wiring |->
        <<<<"VCC", "3.3V or 5V">>,
          <<"GND", "GND">>,
          <<"DATA", "GPIO (with 4.7K pull-up)">>>>,
     notes |-> "Can chain multiple sensors on same bus"]

Comp_soil_moisture ==
    [id |-> "soil_moisture", name |-> "Capacitive Soil Moisture Sensor", interface |-> "Analog",
     wiring |->
        <<<<"VCC", "3.3V">>,
          <<"GND", "GND">>,
          <<"AOUT", "GPIO32-39 (ADC pins)">>>>,
     notes |-> "Capacitive type is more durable than resistive. Use ADC1 pins."]

Comp_pir_motion ==
    [id |-> "pir_motion", name |-> "HC-SR501 PIR Motion Sensor", interface |-> "Digital",
     wiring |->
        <<<<"VCC", "5V">>,
          <<"GND", "GND">>,
          <<"OUT", "Any GPIO">>>>,
     notes |-> "Adjustable sensitivity and delay. Output is HIGH when motion detected."]

Comp_ultrasonic ==
    [id |-> "ultrasonic", name |-> "HC-SR04 Ultrasonic Sensor", interface |-> "Digital (Trigger/Echo)",
     wiring |->
        <<<<"VCC", "5V">>,
          <<"GND", "GND">>,
          <<"TRIG", "Any GPIO">>,
          <<"ECHO", "Any GPIO (use voltage divider for 3.3V)">>>>,
     notes |-> "Range: 2cm-400cm. Echo pin outputs 5V, use voltage divider."]

Comp_ssd1306 ==
    [id |-> "ssd1306", name |-> "SSD1306 OLED 0.96\"", interface |-> "I2C",
     wiring |->
        <<<<"VCC", "3.3V">>,
          <<"GND", "GND">>,
          <<"SDA", "GPIO21">>,
          <<"SCL", "GPIO22">>>>,
     notes |-> "128x64 pixels, I2C address: 0x3C or 0x3D"]

Comp_lcd1602_i2c ==
    [id |-> "lcd1602_i2c", name |-> "LCD 16x2 with I2C", interface |-> "I2C",
     wiring |->
        <<<<"VCC", "5V">>,
          <<"GND", "GND">>,
          <<"SDA", "GPIO21">>,
          <<"SCL", "GPIO22">>>>,
     notes |-> "I2C backpack simplifies wiring. Address usually 0x27 or 0x3F"]

Comp_tft_st7789 ==
    [id |-> "tft_st7789", name |-> "TFT Display ST7789 1.3\"", interface |-> "SPI",
     wiring |->
        <<<<"VCC", "3.3V">>,
          <<"GND", "GND">>,
          <<"SCL", "GPIO18">>,
          <<"SDA", "GPIO23">>,
          <<"RES", "GPIO4">>,
          <<"DC", "GPIO2">>,
          <<"CS", "GPIO15">>>>,
     notes |-> "240x240 pixels, full color. Fast SPI interface."]

Comp_relay ==
    [id |-> "relay", name |-> "Relay Module (1 Channel)", interface |-> "Digital GPIO",
     wiring |->
        <<<<"VCC", "5V">>,
          <<"GND", "GND">>,
          <<"IN", "Any GPIO">>>>,
     notes |-> "Use optocoupled relay for safety. Active LOW common."]

Comp_relay_4ch ==
    [id |-> "relay_4ch", name |-> "Relay Module (4 Channel)", interface |-> "Digital GPIO",
     wiring |->
        <<<<"VCC", "5V">>,
          <<"GND", "GND">>,
          <<"IN1-IN4", "Any GPIO">>>>,
     notes |-> "4 independent relays. Optocoupled recommended."]

Comp_servo_sg90 ==
    [id |-> "servo_sg90", name |-> "SG90 Micro Servo", interface |-> "PWM",
     wiring |->
        <<<<"VCC", "5V (external recommended)">>,
          <<"GND", "GND">>,
          <<"Signal", "Any PWM GPIO">>>>,
     notes |-> "180 deg rotation. Use external 5V supply for multiple servos."]

Comp_water_pump ==
    [id |-> "water_pump", name |-> "Mini Water Pump DC 3-6V", interface |-> "Via Relay/MOSFET",
     wiring |->
        <<<<"VCC", "3-6V (via relay)">>,
          <<"GND", "GND">>>>,
     notes |-> "Control via relay or MOSFET. Add flyback diode for protection."]

Comp_buzzer ==
    [id |-> "buzzer", name |-> "Active Buzzer Module", interface |-> "Digital GPIO",
     wiring |->
        <<<<"VCC", "3.3V or 5V">>,
          <<"GND", "GND">>,
          <<"I/O", "Any GPIO">>>>,
     notes |-> "Active buzzer - just apply voltage. Passive needs PWM for tone."]

Comp_led_strip ==
    [id |-> "led_strip", name |-> "WS2812B LED Strip (NeoPixel)", interface |-> "Digital (Data)",
     wiring |->
        <<<<"VCC", "5V (external supply for long strips)">>,
          <<"GND", "GND">>,
          <<"DIN", "Any GPIO (through 330 Ohm resistor)">>>>,
     notes |-> "Addressable RGB. Use capacitor (1000uF) for power supply."]

Comp_esp32_devkit ==
    [id |-> "esp32_devkit", name |-> "ESP32 DevKit V1", interface |-> "USB",
     wiring |->
        <<>>,
     notes |-> "Most common ESP32 board. 30 or 38 pin versions available."]

Comp_breadboard ==
    [id |-> "breadboard", name |-> "Breadboard 830 Points", interface |-> "N/A",
     wiring |->
        <<>>,
     notes |-> "Standard solderless breadboard for prototyping."]

Comp_jumper_wires ==
    [id |-> "jumper_wires", name |-> "Jumper Wires Kit (M-M, M-F, F-F)", interface |-> "N/A",
     wiring |->
        <<>>,
     notes |-> "Essential for breadboard prototyping."]

Comp_resistor_kit ==
    [id |-> "resistor_kit", name |-> "Resistor Kit (Various Values)", interface |-> "N/A",
     wiring |->
        <<>>,
     notes |-> "Common values: 220 Ohm, 330 Ohm, 1K, 4.7K, 10K needed for pull-ups/LEDs."]

\* HARDWARE_LIBRARY: the categories in declaration order, each with its components.
HARDWARE_LIBRARY ==
    <<<<"sensors", <<Comp_dht22, Comp_dht11, Comp_bme280, Comp_ds18b20, Comp_soil_moisture, Comp_pir_motion, Comp_ultrasonic>>>>,
      <<"displays", <<Comp_ssd1306, Comp_lcd1602_i2c, Comp_tft_st7789>>>>,
      <<"actuators", <<Comp_relay, Comp_relay_4ch, Comp_servo_sg90, Comp_water_pump, Comp_buzzer, Comp_led_strip>>>>,
      <<"boards", <<Comp_esp32_devkit, Comp_breadboard, Comp_jumper_wires, Comp_resistor_kit>>>>>>

Range(f) == {f[x] : x \in DOMAIN f}

RECURSIVE Flatten(_)
Flatten(lists) ==
    IF lists = <<>> THEN <<>> ELSE Head(lists) \o Flatten(Tail(lists))

\* Lines 1136-1138: all_components, the categories' lists one after the other.
all_components ==
    Flatten([i \in DOMAIN HARDWARE_LIBRARY |-> HARDWARE_LIBRARY[i][2]])

CatalogIds == {all_components[i].id : i \in DOMAIN all_components}

\* An ID that names no component of the catalog.
UnknownId == "not_a_real_id"

RECURSIVE ResolvedInRequestOrder(_)
\* Mutant of Selected: one component per ID of the request, in the request's order.
ResolvedInRequestOrder(ids) ==
    IF ids = <<>> THEN <<>>
    ELSE SelectSeq(all_components, LAMBDA c : c.id = Head(ids))
         \o ResolvedInRequestOrder(Tail(ids))

\* Mutant of Selected: the IDs after the first unknown ID are not looked at.
SelectedUpToUnknown(ids) ==
    LET unknown == {i \in DOMAIN ids : ids[i] \notin CatalogIds}
        known   == IF unknown = {} THEN ids
                   ELSE SubSeq(ids, 1, (CHOOSE i \in unknown : \A j \in unknown : i <= j) - 1)
    IN  SelectSeq(all_components, LAMBDA c : c.id \in Range(known))

\* Line 1140: selected = [c for c in all_components if c["id"] in component_ids].
Selected(ids) ==
    SelectSeq(all_components, LAMBDA c : c.id \in Range(ids))

\* str.upper() of a role name of the catalog.
Upper(pin_name) == IF pin_name = "Signal" THEN "SIGNAL" ELSE pin_name

\* "3.3" in str(pin_desc), for the descriptors of the catalog.
Has33(pin_desc) ==
    pin_desc \in {"3.3V", "3.3V or 5V", "Any GPIO (use voltage divider for 3.3V)"}

\* "pull-up" in str(pin_desc).lower(), for the descriptors of the catalog.
HasPullUp(pin_desc) ==
    pin_desc \in {"GPIO (with 10K pull-up)", "GPIO (with 4.7K pull-up)"}

\* "pull-down" in str(pin_desc).lower(): no descriptor of the catalog has it.
HasPullDown(pin_desc) == FALSE

\* Mutant of PowerLabels: the ground label is not exempt.
PowerLabelsWithoutGround == {"3.3V", "5V (VIN)"}

\* The labels exempt from the conflict check (line 1237).
PowerLabels == {"GND", "3.3V", "5V (VIN)"}

GenericDigitalRoles ==
    {"DATA", "IN", "OUT", "SIGNAL", "DQ", "IO", "IN1", "IN2", "IN3", "IN4"}

\* Mutant of FirstFreeAdc: a pin counts as used when it is among the values of
\* used_pins.
FirstFreeAdcAmongOwners(used_pins) ==
    LET adc1 == ESP32_PIN_MAP.adc1
        free == {i \in DOMAIN adc1 : adc1[i] \notin Range(used_pins)}
    IN  IF free = {} THEN None ELSE adc1[CHOOSE i \in free : \A j \in free : i <= j]

\* Lines 1203-1212: the first ADC1 pin that is no key of used_pins, else None.
FirstFreeAdc(used_pins) ==
    LET adc1 == ESP32_PIN_MAP.adc1
        free == {i \in DOMAIN adc1 : adc1[i] \notin DOMAIN used_pins}
    IN  IF free = {} THEN None ELSE adc1[CHOOSE i \in free : \A j \in free : i <= j]

\* Mutant of DigitalScan: the cursor is not advanced.
StuckDigitalScan(gpio_pool, idx, used_pins) ==
    IF idx < Len(gpio_pool)
    THEN [assigned_pin |-> gpio_pool[idx + 1], next_gpio_idx |-> idx]
    ELSE [assigned_pin |-> None, next_gpio_idx |-> idx]

\* Mutant of DigitalScan: past the end of gpio_pool the scan starts over at the
\* pool's first pin.
WrappingDigitalScan(gpio_pool, idx, used_pins) ==
    IF idx < Len(gpio_pool)
    THEN [assigned_pin |-> gpio_pool[idx + 1], next_gpio_idx |-> idx + 1]
    ELSE [assigned_pin |-> gpio_pool[1], next_gpio_idx |-> idx]

RECURSIVE DigitalScan(_, _, _)
\* Lines 1217-1222: the while loop over gpio_pool from next_gpio_idx on; a
\* candidate is taken unless it is among used_pins.values() (component IDs).
DigitalScan(gpio_pool, idx, used_pins) ==
    IF idx < Len(gpio_pool)
    THEN LET candidate == gpio_pool[idx + 1]
         IN  IF candidate \notin Range(used_pins)
             THEN [assigned_pin |-> candidate, next_gpio_idx |-> idx + 1]
             ELSE DigitalScan(gpio_pool, idx + 1, used_pins)
    ELSE [assigned_pin |-> None, next_gpio_idx |-> idx]

\* Lines 1176-1235: the pin a role resolves to, with the warnings and the cursor
\* after it.
AssignPin(pin_name, pin_desc, comp_name, fr) ==
    LET u    == Upper(pin_name)
        keep == [assigned_pin |-> None, warnings |-> fr.warnings,
                 next_gpio_idx |-> fr.next_gpio_idx]
        Fixed(pin) == [keep EXCEPT !.assigned_pin = pin]
    IN  CASE u \in {"VCC", "VIN"} ->
                Fixed(IF Has33(pin_desc) THEN "3.3V" ELSE "5V (VIN)")
          [] u = "GND" -> Fixed("GND")
          [] u \in {"SDA", "SDL"} -> Fixed(ESP32_PIN_MAP.i2c.SDA)
          [] u = "SCL" -> Fixed(ESP32_PIN_MAP.i2c.SCL)
          [] u \in {"MOSI", "SDI", "DIN"} -> Fixed(ESP32_PIN_MAP.spi_vspi.MOSI)
          [] u \in {"MISO", "SDO", "DOUT"} -> Fixed(ESP32_PIN_MAP.spi_vspi.MISO)
          [] u \in {"SCK", "CLK", "SCLK"} -> Fixed(ESP32_PIN_MAP.spi_vspi.SCK)
          [] u = "CS" -> Fixed(ESP32_PIN_MAP.spi_vspi.CS)
          [] u \in {"AOUT", "AO", "ANALOG"} ->
                LET adc_pin == FirstFreeAdc(fr.used_pins)
                IN  IF Truthy(adc_pin) THEN Fixed(adc_pin)
                    ELSE [keep EXCEPT
                            !.assigned_pin = "GPIO34 (ADC)",
                            !.warnings = Append(@, <<comp_name, ": ADC pins limited, may conflict">>)]
          [] u \in GenericDigitalRoles ->
                LET scan == DigitalScan(fr.gpio_pool, fr.next_gpio_idx, fr.used_pins)
                IN  IF Truthy(scan.assigned_pin)
                    THEN [keep EXCEPT !.assigned_pin = scan.assigned_pin,
                                      !.next_gpio_idx = scan.next_gpio_idx]
                    ELSE [keep EXCEPT
                            !.assigned_pin = "GPIO" \o ToString(4 + scan.next_gpio_idx),
                            !.next_gpio_idx = scan.next_gpio_idx,
                            !.warnings = Append(@, <<comp_name, ": Running low on recommended GPIOs">>)]
          [] u \in {"DC", "RS"} -> Fixed("GPIO2")
          [] u \in {"RES", "RST", "RESET"} -> Fixed("GPIO4")
          [] OTHER -> Fixed(pin_desc)

\* Mutant of ConflictWarnings: a pin of the shared I2C or SPI bus is not reported.
ConflictWarningsExceptBus(warnings, used_pins, assigned_pin, comp_id, comp_name) ==
    IF /\ assigned_pin \in DOMAIN used_pins
       /\ used_pins[assigned_pin] # comp_id
       /\ assigned_pin \notin Range(ESP32_PIN_MAP.i2c) \cup Range(ESP32_PIN_MAP.spi_vspi)
    THEN Append(warnings, <<"PIN CONFLICT: ", assigned_pin, " used by both ",
                            used_pins[assigned_pin], " and ", comp_name>>)
    ELSE warnings

\* Lines 1239-1240: the warning for a pin that used_pins gives to another component.
ConflictWarnings(warnings, used_pins, assigned_pin, comp_id, comp_name) ==
    IF assigned_pin \in DOMAIN used_pins /\ used_pins[assigned_pin] # comp_id
    THEN Append(warnings, <<"PIN CONFLICT: ", assigned_pin, " used by both ",
                            used_pins[assigned_pin], " and ", comp_name>>)
    ELSE warnings

\* Mutant of RecordPin: a pin that used_pins already holds stays with its first
\* component.
RecordPinKeepingFirstOwner(component, pin_name, pin_desc, fr, got) ==
    LET assigned_pin == got.assigned_pin
        checked  == Truthy(assigned_pin) /\ assigned_pin \notin PowerLabels
        note     == IF HasPullUp(pin_desc) THEN " [10K pull-up]"
                    ELSE IF HasPullDown(pin_desc) THEN " [10K pull-down]"
                    ELSE ""
    IN  [fr EXCEPT
           !.next_gpio_idx = got.next_gpio_idx,
           !.warnings = IF checked
                        THEN ConflictWarnings(got.warnings, fr.used_pins, assigned_pin,
                                              component.id, component.name)
                        ELSE got.warnings,
           !.used_pins = IF checked /\ assigned_pin \notin DOMAIN @
                         THEN (assigned_pin :> component.id) @@ @ ELSE @,
           !.comp_pins = (pin_name :> assigned_pin) @@ @,
           !.diagram_lines = Append(@, <<assigned_pin, "-------->", pin_name, note>>)]

\* Lines 1237-1253: the conflict check, the reservation and the diagram line of a
\* role that AssignPin has resolved.
RecordPin(component, pin_name, pin_desc, fr, got) ==
    LET assigned_pin == got.assigned_pin
        checked  == Truthy(assigned_pin) /\ assigned_pin \notin PowerLabels
        note     == IF HasPullUp(pin_desc) THEN " [10K pull-up]"
                    ELSE IF HasPullDown(pin_desc) THEN " [10K pull-down]"
                    ELSE ""
    IN  [fr EXCEPT
           !.next_gpio_idx = got.next_gpio_idx,
           !.warnings = IF checked
                        THEN ConflictWarnings(got.warnings, fr.used_pins, assigned_pin,
                                              component.id, component.name)
                        ELSE got.warnings,
           !.used_pins = IF checked THEN (assigned_pin :> component.id) @@ @ ELSE @,
           !.comp_pins = (pin_name :> assigned_pin) @@ @,
           !.diagram_lines = Append(@, <<assigned_pin, "-------->", pin_name, note>>)]

\* Lines 1175-1253: one pass of the loop over the roles of a component.
ProcessRole(component, role, fr) ==
    RecordPin(component, role[1], role[2], fr,
              AssignPin(role[1], role[2], component.name, fr))

RECURSIVE ProcessRoles(_, _, _)
ProcessRoles(component, roles, fr) ==
    IF roles = <<>> THEN fr
    ELSE ProcessRoles(component, Tail(roles), ProcessRole(component, Head(roles), fr))

\* Lines 1170-1173: the component's heading and its empty comp_pins.
StartComponent(component, fr) ==
    [fr EXCEPT
       !.comp_pins = <<>>,
       !.diagram_lines = @ \o <<<<"ESP32", component.name>>, <<"-*50">>>>]

\* Lines 1255-1256: the component's pins go to pin_assignments.
FinishComponent(component, fr) ==
    [fr EXCEPT
       !.pin_assignments = (component.id :> fr.comp_pins) @@ @,
       !.diagram_lines = Append(@, <<"">>)]

\* Lines 1161-1256: one pass of the loop over the selected components.
ProcessComponent(component, fr) ==
    IF component.wiring = <<>> THEN fr
    ELSE FinishComponent(component,
             ProcessRoles(component, component.wiring, StartComponent(component, fr)))

RECURSIVE ProcessComponents(_, _)
ProcessComponents(components, fr) ==
    IF components = <<>> THEN fr
    ELSE ProcessComponents(Tail(components), ProcessComponent(Head(components), fr))

\* Mutant of NewFrame: the pin reservations and the cursor are module-level state
\* that the previous call left behind.
NewFrameKeepingReservations ==
    [used_pins       |-> left_used_pins,
     warnings        |-> <<>>,
     pin_assignments |-> <<>>,
     diagram_lines   |-> <<<<"=*60">>, <<"ESP32 WIRING DIAGRAM">>, <<"=*60">>, <<"">>>>,
     next_gpio_idx   |-> left_next_gpio_idx,
     gpio_pool       |-> ESP32_PIN_MAP.digital_recommended,
     comp_pins       |-> <<>>]

\* Lines 1145-1159: the locals of a call before its loop.
NewFrame ==
    [used_pins       |-> <<>>,
     warnings        |-> <<>>,
     pin_assignments |-> <<>>,
     diagram_lines   |-> <<<<"=*60">>, <<"ESP32 WIRING DIAGRAM">>, <<"=*60">>, <<"">>>>,
     next_gpio_idx   |-> 0,
     gpio_pool       |-> ESP32_PIN_MAP.digital_recommended,
     comp_pins       |-> <<>>]

\* Lines 1258-1284: the diagram's notes, warnings and power notes sections.
DiagramTail(selected, warned) ==
    LET noted == SelectSeq(selected, LAMBDA c : Truthy(c.notes))
    IN  (IF noted = <<>> THEN <<>>
         ELSE <<<<"=*60">>, <<"WIRING NOTES">>, <<"=*60">>>>
              \o [i \in DOMAIN noted |-> <<"* ", noted[i].name, ": ", noted[i].notes>>]
              \o <<<<"">>>>)
        \o (IF warned = <<>> THEN <<>>
            ELSE <<<<"=*60">>, <<"WARNINGS">>, <<"=*60">>>>
                 \o [i \in DOMAIN warned |-> <<"* ">> \o warned[i]]
                 \o <<<<"">>>>)
        \o <<<<"=*60">>, <<"POWER NOTES">>, <<"=*60">>,
             <<"* ESP32 3.3V pin can supply ~50mA max">>,
             <<"* For 5V components, use VIN or external supply">>,
             <<"* Relays/motors need external power supply">>,
             <<"* Add 100uF capacitor near sensor VCC for stability">>>>

\* Lines 1286-1291: the dict returned after the loop, with the locals the call
\* ends with. The diagram is the sequence of its lines, each line the sequence of
\* its parts.
ReturnValue(selected, fr) ==
    [returned |-> [diagram |-> fr.diagram_lines \o DiagramTail(selected, fr.warnings),
                   warnings |-> fr.warnings,
                   pin_assignments |-> fr.pin_assignments,
                   components |-> [i \in DOMAIN selected |->
                                     [id |-> selected[i].id, name |-> selected[i].name]]],
     frame |-> [used_pins |-> fr.used_pins, next_gpio_idx |-> fr.next_gpio_idx]]

\* Lines 1142-1143: the dict returned when nothing is selected; no locals are made.
EmptyReturnValue ==
    [returned |-> [diagram |-> <<<<"No components selected">>>>,
                   warnings |-> <<>>, pin_assignments |-> <<>>],
     frame |-> [used_pins |-> left_used_pins, next_gpio_idx |-> left_next_gpio_idx]]

\* Mutant of generate_ascii_wiring_diagram: the test of lines 1142-1143 is missing.
DiagramWithoutEmptyCheck(ids) ==
    ReturnValue(Selected(ids), ProcessComponents(Selected(ids), NewFrame))

\* Lines 1134-1291.
generate_ascii_wiring_diagram(ids) ==
    IF Selected(ids) = <<>> THEN EmptyReturnValue
    ELSE ReturnValue(Selected(ids), ProcessComponents(Selected(ids), NewFrame))

\* The response of the handler and what the call leaves behind.
Respond(ids, call) ==
    /\ component_ids' = ids
    /\ result' = call.returned
    /\ left_used_pins' = call.frame.used_pins
    /\ left_next_gpio_idx' = call.frame.next_gpio_idx
    /\ calls' = Append(calls, [component_ids |-> ids, result |-> call.returned])
    /\ UNCHANGED pipeline_vars
    /\ UNCHANGED inflight

\* Lines 1293-1296, the whole handler: the request's component_ids in, the dict out.
generate_wiring_diagram(ids) == Respond(ids, generate_ascii_wiring_diagram(ids))

\* The sequences over S of length at most n.
BoundedSeq(S, n) == UNION {[1..k -> S] : k \in 0..n}

\* WiringDiagramRequest.component_ids of the requests made.
RequestIds == BoundedSeq(CatalogIds \cup {UnknownId}, MaxIds)

RepeatedRequestIds == BoundedSeq(CatalogIds \cup {UnknownId}, MaxRepeatedIds)

\* Before any request: no call has created a frame.
InitWiring ==
    /\ component_ids = <<>>
    /\ result = [diagram |-> <<>>, warnings |-> <<>>, pin_assignments |-> <<>>]
    /\ left_used_pins = <<>>
    /\ left_next_gpio_idx = 0
    /\ calls = <<>>

InitAlloc ==
    /\ InitWiring
    /\ inflight = NoRequests
    /\ clock = 0
    /\ project = create_project(ProjectName, IdeaText, IsoFormat(0))
    /\ loaded = project
    /\ response = Response("create_project", 200, None, None, None, None)

\* One request per behaviour, with any component_ids.
WiringRequest ==
    /\ calls = <<>>
    /\ \E ids \in RequestIds : generate_wiring_diagram(ids)

SpecAlloc == InitAlloc /\ [][WiringRequest]_vars

\* A request, any other request, then the first request again.
RepeatedWiringRequest ==
    /\ Len(calls) < 3
    /\ \E ids \in RepeatedRequestIds :
          /\ Len(calls) = 2 => ids = calls[1].component_ids
          /\ generate_wiring_diagram(ids)

SpecRepeat == InitAlloc /\ [][RepeatedWiringRequest]_vars

\* The IDs of the catalog in the order of all_components.
CatalogIdSeq == [i \in DOMAIN all_components |-> all_components[i].id]

RECURSIVE SubsetsUpTo(_, _)
\* The subsets of S with at most n elements.
SubsetsUpTo(S, n) ==
    IF n = 0 THEN {{}}
    ELSE LET smaller == SubsetsUpTo(S, n - 1)
         IN  smaller \cup {T \cup {x} : T \in smaller, x \in S}

\* WiringDiagramRequest.component_ids of the requests that name components of the
\* catalog only, each once and in the catalog's order: what line 1140 selects
\* for any request with the same IDs.
SelectionIds ==
    {SelectSeq(CatalogIdSeq, LAMBDA id : id \in T) : T \in SubsetsUpTo(CatalogIds, MaxSelected)}

\* One request per behaviour, naming up to MaxSelected components.
SelectionRequest ==
    /\ calls = <<>>
    /\ \E ids \in SelectionIds : generate_wiring_diagram(ids)

SpecSelect == InitAlloc /\ [][SelectionRequest]_vars

\* ------------------------------------------------------------ longer catalogs
\* HARDWARE_LIBRARY as shipped has six generic-digital roles and one analog role,
\* fewer than gpio_pool and adc1 hold: the branches of lines 1210-1212 and
\* 1223-1225 are taken only once the dict has parts with more such roles. The
\* parts below are entries of that kind, in the shape of lines 235-595; the loop
\* of lines 1161-1256 runs over them as it runs over the shipped entries.

Part_io_a ==
    [id |-> "io_a", name |-> "IO Expander A", interface |-> "Digital GPIO",
     wiring |->
        <<<<"VCC", "3.3V">>,
          <<"GND", "GND">>,
          <<"DATA", "GPIO">>, <<"IN", "GPIO">>, <<"OUT", "GPIO">>, <<"SIGNAL", "GPIO">>,
          <<"DQ", "GPIO">>, <<"IO", "GPIO">>, <<"IN1", "GPIO">>, <<"IN2", "GPIO">>,
          <<"IN3", "GPIO">>, <<"IN4", "GPIO">>>>,
     notes |-> None]

Part_io_b == [Part_io_a EXCEPT !.id = "io_b", !.name = "IO Expander B"]

Part_adc_a ==
    [id |-> "adc_a", name |-> "Analog Probe A", interface |-> "Analog (ADC)",
     wiring |->
        <<<<"VCC", "3.3V">>,
          <<"GND", "GND">>,
          <<"AOUT", "ADC GPIO">>, <<"AO", "ADC GPIO">>, <<"ANALOG", "ADC GPIO">>>>,
     notes |-> None]

Part_adc_b == [Part_adc_a EXCEPT !.id = "adc_b", !.name = "Analog Probe B"]

Part_adc_c ==
    [id |-> "adc_c", name |-> "Analog Probe C", interface |-> "Analog (ADC)",
     wiring |-> <<<<"GND", "GND">>, <<"AOUT", "ADC GPIO">>>>,
     notes |-> None]

\* The entries a longer catalog is drawn from: the parts above and two shipped
\* components, one with a generic-digital and one with an analog role.
Parts ==
    <<Part_io_a, Part_io_b, Part_adc_a, Part_adc_b, Part_adc_c,
      Comp_relay, Comp_soil_moisture>>

\* Line 1140 over a longer catalog: the selected entries, none twice, in the
\* catalog's order, which is any order of the entries.
PartSelections ==
    {sel \in BoundedSeq(DOMAIN Parts, MaxParts) :
        \A i, j \in DOMAIN sel : i # j => sel[i] # sel[j]}

\* Lines 1142-1291 for the entries line 1140 selected.
AllocateSelected(selected) ==
    IF selected = <<>> THEN EmptyReturnValue
    ELSE ReturnValue(selected, ProcessComponents(selected, NewFrame))

\* One request per behaviour, selecting from a longer catalog.
PartsRequest ==
    /\ calls = <<>>
    /\ \E sel \in PartSelections :
          Respond([i \in DOMAIN sel |-> Parts[sel[i]].id],
                  AllocateSelected([i \in DOMAIN sel |-> Parts[sel[i]]]))

SpecParts == InitAlloc /\ [][PartsRequest]_vars

\* ------------------------------------------------------------ specification

Init ==
    /\ clock = 0
    /\ project = create_project(ProjectName, IdeaText, IsoFormat(0))
    /\ loaded = project
    /\ response = Response("create_project", 200, None, None, None, None)
    /\ InitWiring
    /\ inflight = NoRequests

Approve ==
    \E stage \in Stages, approved \in ApprovedIn, notes \in NotesIn :
        approve_stage(stage, approved, notes)

Generate ==
    \E stage \in Stages, user_message \in UserMessages,
       provider \in LLMProvider, api_key \in ApiKeys :
        generate_stage_content(stage, user_message, provider, api_key)

Validate ==
    \E route \in StageRoutes, stage \in InvalidStages : RejectInvalidStage(route, stage)

Next == Approve \/ Generate \/ Validate

Spec == Init /\ [][Next]_vars

\* -------------------------------------------------------------- creation

\* ProjectCreate.idea of the requests made.
IdeasIn == {IdeaText, ""}

\* template_id of the requests made: the templates and an ID of none.
TemplateIdsIn ==
    {PROJECT_TEMPLATES[i].id : i \in DOMAIN PROJECT_TEMPLATES} \cup {"no_such_template"}

\* The store holds no document of the project yet.
NoProject == <<>>

InitEmpty ==
    /\ clock = 0
    /\ project = NoProject
    /\ loaded = NoProject
    /\ response = Response("start", 0, None, None, None, None)
    /\ InitWiring
    /\ inflight = NoRequests

\* Lines 870-886, the whole handler: the project is built and inserted.
CreateProject ==
    \E idea \in IdeasIn :
        /\ project = NoProject
        /\ clock < MaxClock
        /\ clock' = clock + 1
        /\ project' = create_project(ProjectName, idea, IsoFormat(clock + 1))
        /\ loaded' = project'
        /\ response' = Response("create_project", 200, None, None, None, None)
        /\ UNCHANGED wiring_vars
        /\ UNCHANGED inflight

\* Lines 1313-1335, the whole handler: 404 for an ID of no template, else the
\* project is built from the template and inserted.
InstantiateTemplate ==
    \E template_id \in TemplateIdsIn :
        /\ project = NoProject
        /\ clock < MaxClock
        /\ clock' = clock + 1
        /\ IF FindTemplate(template_id) # <<>>
           THEN /\ project' = instantiate_template(FindTemplate(template_id)[1], IsoFormat(clock + 1))
                /\ loaded' = project'
                /\ response' = Response("instantiate_template", 200, None, None, None, None)
           ELSE /\ response' = Response("instantiate_template", 404, None, None, None,
                                        "Template not found")
                /\ UNCHANGED <<project, loaded>>
        /\ UNCHANGED wiring_vars
        /\ UNCHANGED inflight

\* The requests on the project once it is stored.
PipelineRequest == project # NoProject /\ Next

NextCreate == CreateProject \/ InstantiateTemplate \/ PipelineRequest

SpecCreate == InitEmpty /\ [][NextCreate]_vars

\* ------------------------------------------------------------ concurrency
\* approve_stage and generate_stage_content are coroutines: each awaits find_one,
\* generate_stage_content awaits the language model, and each awaits update_one.
\* Another request can run at every await.

\* A request after its find_one returned.
Loaded(op, stage, approved, notes, user_message, provider, api_key, doc) ==
    [pc |-> "loaded", op |-> op, stage |-> stage, approved |-> approved, notes |-> notes,
     user_message |-> user_message, provider |-> provider, api_key |-> api_key,
     doc |-> doc, context |-> <<>>, status |-> None, content |-> None]

\* The first request starts before the second.
MayStart(r) ==
    /\ inflight[r].pc = "idle"
    /\ r = "r2" => inflight["r1"].pc # "idle"

\* Lines 926-928 of approve_stage: the project is loaded.
LoadApprove(r, stage, approved, notes) ==
    /\ MayStart(r)
    /\ inflight' = [inflight EXCEPT
                      ![r] = Loaded("approve", stage, approved, notes, None, None, None, project)]
    /\ UNCHANGED <<pipeline_vars, wiring_vars>>

\* Lines 930-955 of approve_stage: the $set computed from the loaded document is
\* applied to the stored one.
SaveApprove(r) ==
    /\ inflight[r].pc = "loaded"
    /\ inflight[r].op = "approve"
    /\ clock' = clock + 1
    /\ loaded' = inflight[r].doc
    /\ project' = SetFields(project,
                      ApproveUpdate(inflight[r].doc, inflight[r].stage, inflight[r].approved,
                                    inflight[r].notes, IsoFormat(clock + 1)))
    /\ response' = Response("approve", 200,
                            NextStage(inflight[r].stage, inflight[r].approved), None, None, None)
    /\ inflight' = [inflight EXCEPT ![r].pc = "done", ![r].status = 200]
    /\ UNCHANGED wiring_vars

\* Lines 960-972 of generate_stage_content and 810-829 of generate_llm_response:
\* the project is loaded and the language model is called with the context.
LoadGenerate(r, stage, user_message, provider, api_key) ==
    /\ MayStart(r)
    /\ inflight' = [inflight EXCEPT
                      ![r] = [Loaded("generate", stage, FALSE, None, user_message,
                                     provider, api_key, project)
                                EXCEPT !.context = ContextParts(project, stage)]]
    /\ UNCHANGED <<pipeline_vars, wiring_vars>>

\* Lines 964-1002 of generate_stage_content: the language model answers; a text
\* is saved with the $set computed from the loaded document, a failure saves
\* nothing.
FinishGenerate(r) ==
    /\ inflight[r].pc = "loaded"
    /\ inflight[r].op = "generate"
    /\ clock' = clock + 1
    /\ loaded' = inflight[r].doc
    /\ \E outcome \in LLMOutcomes(inflight[r].provider, inflight[r].api_key) :
          IF outcome.kind = "return"
          THEN /\ project' = SetFields(project,
                                GenerateUpdate(inflight[r].doc, inflight[r].stage,
                                               inflight[r].user_message, outcome.text,
                                               IsoFormat(clock + 1)))
               /\ response' = Response("generate", 200, None, outcome.text, inflight[r].stage, None)
               /\ inflight' = [inflight EXCEPT ![r].pc = "done", ![r].status = 200,
                                               ![r].content = outcome.text]
          ELSE /\ UNCHANGED project
               /\ response' = GenerateFailure(outcome)
               /\ inflight' = [inflight EXCEPT ![r].pc = "done",
                                               ![r].status = GenerateFailure(outcome).status]
    /\ UNCHANGED wiring_vars

\* The providers of the concurrent requests.
ConcurrentProviders == {"openai"}

LoadStep ==
    \E r \in Requests, stage \in Stages :
        \/ \E approved \in ApprovedIn, notes \in NotesIn : LoadApprove(r, stage, approved, notes)
        \/ \E user_message \in UserMessages, provider \in ConcurrentProviders :
              LoadGenerate(r, stage, user_message, provider, None)

SaveStep == \E r \in Requests : SaveApprove(r) \/ FinishGenerate(r)

NextConc == LoadStep \/ SaveStep

SpecConc == Init /\ [][NextConc]_vars

\* ------------------------------------------------------------------ claims

\* The position of a stage in the fixed order (the ProjectStage enum).
StagePosition(stage) == CHOOSE i \in DOMAIN ProjectStage : ProjectStage[i] = stage

LastStage == ProjectStage[Len(ProjectStage)]

\* The stage immediately after `stage` in the fixed order.
StageAfter(stage) == ProjectStage[StagePosition(stage) + 1]

\* The first stage of the fixed order whose record is not approved (None when
\* every stage is approved).
FirstUnapproved(stages) ==
    LET open == {i \in DOMAIN ProjectStage : ~stages[ProjectStage[i]].user_approved}
    IN  IF open = {} THEN None
        ELSE ProjectStage[CHOOSE i \in open : \A j \in open : i <= j]

\* C1: approve(stage, approved=true) on a stage other than the last sets
\* current_stage to the stage right after `stage` and returns it as next_stage,
\* whatever current_stage was and whatever the other stages' approvals are.
C1_ApproveAdvancesToSuccessor ==
    [][response'.op = "approve"
       => \A stage \in Stages \ {LastStage}, notes \in NotesIn :
             approve_stage(stage, TRUE, notes)
             => /\ project'.current_stage = StageAfter(stage)
                /\ response'.next_stage = StageAfter(stage)]_vars

\* An approval has moved current_stage backward, over a stage that is not approved.
C1_Witness ==
    /\ response.op = "approve"
    /\ response.next_stage = project.current_stage
    /\ StagePosition(project.current_stage) < StagePosition(loaded.current_stage)
    /\ \E s \in Stages :
          /\ StagePosition(s) < StagePosition(loaded.current_stage)
          /\ ~loaded.stages[s].user_approved

\* C2: approve leaves current_stage unchanged and returns no next stage when
\* approved is false (any stage) or the stage is the last one (any approved).
C2_NoAdvanceWhenRejectedOrLast ==
    [][response'.op = "approve"
       => \A stage \in Stages, approved \in ApprovedIn, notes \in NotesIn :
             ((~approved \/ stage = LastStage) /\ approve_stage(stage, approved, notes))
             => /\ project'.current_stage = project.current_stage
                /\ response'.next_stage = None]_vars

\* The last stage has been approved, and a rejection has been recorded, with
\* current_stage where it was.
C2_Witness ==
    /\ response.op = "approve"
    /\ response.next_stage = None
    /\ project.current_stage = loaded.current_stage
    /\ project.stages[LastStage].user_approved
    /\ \E s \in Stages : loaded.stages[s].user_approved /\ ~project.stages[s].user_approved

\* C3: after a successful generate for a stage, that stage's record is exactly
\* {content: the generated text, generated_at: now, approved: false, notes: null}.
C3_GenerateReplacesRecord ==
    (response.op = "generate" /\ response.status = 200)
    => project.stages[response.stage] =
         [content |-> response.content, generated_at |-> IsoFormat(clock),
          user_approved |-> FALSE, notes |-> None]

\* A stage that was approved and had notes has been generated again.
C3_Witness ==
    /\ response.op = "generate"
    /\ response.status = 200
    /\ loaded.stages[response.stage].user_approved
    /\ loaded.stages[response.stage].notes = "n1"
    /\ ~project.stages[response.stage].user_approved

\* C4: a generate whose Generator call fails leaves the stored project exactly as
\* it was, and every generate step either writes its whole update or nothing.
C4_FailedGenerateCommitsNothing ==
    [][response'.op = "generate"
       => \/ /\ response'.status = 200
             /\ \E stage \in {response'.stage}, user_message \in UserMessages :
                   project' = SetFields(project,
                       [stages |-> [project.stages EXCEPT ![stage] =
                                       StageData(response'.content, IsoFormat(clock'), FALSE, None)],
                        conversation_history |->
                            project.conversation_history \o
                            (IF user_message \in {None, ""} THEN <<>>
                             ELSE <<[role |-> "user", content |-> user_message, stage |-> stage]>>) \o
                            <<[role |-> "assistant", content |-> response'.content, stage |-> stage]>>,
                        updated_at |-> IsoFormat(clock')])
          \/ /\ response'.status # 200
             /\ project' = project]_vars

\* A generate has failed on a project that earlier requests had changed.
C4_Witness ==
    /\ response.op = "generate"
    /\ response.status \in {0, 500}
    /\ project = loaded
    /\ project.conversation_history # <<>>

\* C5 as stated: current_stage is always the first unapproved stage.
C5_CurrentStageIsFirstUnapproved ==
    project.current_stage = FirstUnapproved(project.stages)

\* C5 amended: current_stage is 'idea' at creation and afterwards changes only
\* in an approve(stage, approved=true) on a stage other than the last, which sets
\* it to that stage's successor.
C5_CurrentStageFollowsLastApproval ==
    /\ project.current_stage = ProjectStage[1]
    /\ [][project'.current_stage # project.current_stage
          => \E stage \in Stages \ {LastStage}, notes \in NotesIn :
                /\ approve_stage(stage, TRUE, notes)
                /\ project'.current_stage = StageAfter(stage)]_vars

\* An approval has set current_stage to a stage that is not the first unapproved one.
C5_Witness ==
    /\ response.op = "approve"
    /\ response.next_stage = project.current_stage
    /\ project.current_stage # FirstUnapproved(project.stages)

\* ---------------------------------------------------------------- wiring claims

\* A wiring request has been answered.
Returned == calls # <<>>

\* The position of each ID in all_components.
CatalogPositions ==
    [id \in CatalogIds |-> CHOOSE i \in DOMAIN all_components : all_components[i].id = id]

\* The position of an ID in all_components.
CatalogPosition(id) == CatalogPositions[id]

\* The catalog's component with an ID.
ComponentById(id) == all_components[CatalogPosition(id)]

\* The components a call selected, in the order it processed them.
ProcessedIds ==
    IF "components" \in DOMAIN result
    THEN [i \in DOMAIN result.components |-> result.components[i].id]
    ELSE <<>>

\* The role names of a component.
RoleNames(c) == {c.wiring[i][1] : i \in DOMAIN c.wiring}

\* The fixed pin of the shared-bus line a role name stands for, else None.
BusLinePin(pin_name) ==
    LET u == Upper(pin_name)
    IN  CASE u \in {"SDA", "SDL"} -> "GPIO21"
          [] u = "SCL" -> "GPIO22"
          [] u \in {"MOSI", "SDI", "DIN"} -> "GPIO23"
          [] u \in {"MISO", "SDO", "DOUT"} -> "GPIO19"
          [] u \in {"SCK", "CLK", "SCLK"} -> "GPIO18"
          [] u = "CS" -> "GPIO5"
          [] OTHER -> None

BusPins == {"GPIO21", "GPIO22", "GPIO23", "GPIO19", "GPIO18", "GPIO5"}

\* The fixed pins of the bus lines each component of the catalog has a role on.
BusLinesOf ==
    [id \in CatalogIds |-> {BusLinePin(r) : r \in RoleNames(ComponentById(id))} \ {None}]

\* The processed components with a role on the bus line of a pin, in processing order.
LineSharers(pin) ==
    SelectSeq(ProcessedIds, LAMBDA id : pin \in BusLinesOf[id])

\* A warning of line 1240, and its fields.
IsConflictWarning(w) == w[1] = "PIN CONFLICT: "

ConflictPin(w) == w[2]

ConflictOwner(w) == w[4]

ConflictClaimer(w) == w[6]

ConflictWarningsOf == 
    {i \in DOMAIN result.warnings : IsConflictWarning(result.warnings[i])}

\* Every sharer of a bus line holds the line's fixed pin on each of its roles on it.
SharersHoldFixedPin(pin, sharers) ==
    \A k \in DOMAIN sharers :
        \A r \in RoleNames(ComponentById(sharers[k])) :
            BusLinePin(r) = pin => result.pin_assignments[sharers[k]][r] = pin

\* C6 as stated: when two or more selected components each have a role on the
\* same shared-bus line, every one of them is assigned the line's fixed pin and
\* no conflict warning is emitted for that pin.
C6_BusSharingNeverWarns ==
    Returned =>
        \A pin \in BusPins : \A sharers \in {LineSharers(pin)} :
            Len(sharers) >= 2 =>
                /\ SharersHoldFixedPin(pin, sharers)
                /\ \A i \in ConflictWarningsOf : ConflictPin(result.warnings[i]) # pin

\* C6 amended: when two or more selected components each have a role on the same
\* shared-bus line, every one of them is assigned the line's fixed pin, and a
\* conflict warning for that pin is emitted for each of them but the first
\* processed, carrying the name of the component that took the pin.
C6_BusSharingWarnsEachLaterSharer ==
    Returned =>
        \A pin \in BusPins : \A sharers \in {LineSharers(pin)} :
            Len(sharers) >= 2 =>
                /\ SharersHoldFixedPin(pin, sharers)
                /\ \A k \in 2..Len(sharers) :
                      \E i \in ConflictWarningsOf :
                          /\ ConflictPin(result.warnings[i]) = pin
                          /\ ConflictClaimer(result.warnings[i]) =
                                ComponentById(sharers[k]).name

\* bme280 and ssd1306 share SDA and SCL: both hold GPIO21 and GPIO22, and the
\* call warned of a conflict on each.
C6_Witness ==
    /\ Returned
    /\ component_ids = <<"bme280", "ssd1306">>
    /\ LineSharers("GPIO21") = <<"bme280", "ssd1306">>
    /\ result.pin_assignments["bme280"]["SDA"] = "GPIO21"
    /\ result.pin_assignments["ssd1306"]["SDA"] = "GPIO21"
    /\ result.pin_assignments["bme280"]["SCL"] = "GPIO22"
    /\ result.pin_assignments["ssd1306"]["SCL"] = "GPIO22"
    /\ Len(result.warnings) = 2

\* A text of the warning is a component's name.
Names(w, name) == \E j \in DOMAIN w : w[j] = name

\* C7: a conflict warning contains the pin and the names of both components, the
\* name of the earlier owner and the name of the component being processed.
C7_ConflictWarningNamesBoth ==
    Returned =>
        \A i \in ConflictWarningsOf :
            LET w == result.warnings[i]
            IN  \E owner, claimer \in Range(ProcessedIds) :
                    /\ owner # claimer
                    /\ ConflictPin(w) \in Range(result.pin_assignments[owner])
                    /\ ConflictPin(w) \in Range(result.pin_assignments[claimer])
                    /\ Names(w, ConflictPin(w))
                    /\ Names(w, ComponentById(owner).name)
                    /\ Names(w, ComponentById(claimer).name)

\* The role names the code takes for power, and those it draws from the pool for.
IsPowerRole(pin_name) == Upper(pin_name) \in {"VCC", "VIN", "GND"}

IsGenericDigitalRole(pin_name) == Upper(pin_name) \in GenericDigitalRoles

\* A component with exactly one generic-digital role and no other non-power role.
OneDigitalRoleOnly(c) ==
    /\ Cardinality({r \in RoleNames(c) : IsGenericDigitalRole(r)}) = 1
    /\ \A r \in RoleNames(c) : IsGenericDigitalRole(r) \/ IsPowerRole(r)

DigitalRole(c) == CHOOSE r \in RoleNames(c) : IsGenericDigitalRole(r)

\* The pin the i-th processed component got on its digital role.
DigitalPinOf(i) ==
    result.pin_assignments[ProcessedIds[i]][DigitalRole(ComponentById(ProcessedIds[i]))]

\* The components of the catalog with one generic-digital role and power roles only.
OneDigitalRoleIds == {id \in CatalogIds : OneDigitalRoleOnly(ComponentById(id))}

OnlyDigitalSelected ==
    /\ Returned
    /\ ProcessedIds # <<>>
    /\ Range(ProcessedIds) \subseteq OneDigitalRoleIds

\* C8: when every selected component has exactly one generic-digital role and no
\* other non-power role, the i-th component processed holds the i-th entry of the
\* digital-recommended pool, the pins are pairwise distinct, and no conflict
\* warning is emitted.
C8_DigitalRolesGetPoolInOrder ==
    OnlyDigitalSelected =>
        /\ Len(ProcessedIds) <= Len(ESP32_PIN_MAP.digital_recommended)
        /\ \A i \in DOMAIN ProcessedIds :
              DigitalPinOf(i) = ESP32_PIN_MAP.digital_recommended[i]
        /\ \A i, j \in DOMAIN ProcessedIds : i # j => DigitalPinOf(i) # DigitalPinOf(j)
        /\ ConflictWarningsOf = {}

\* dht22 and ds18b20 were selected: GPIO4 and GPIO5, no warning.
C8_Witness ==
    /\ OnlyDigitalSelected
    /\ ProcessedIds = <<"dht22", "ds18b20">>
    /\ DigitalPinOf(1) = "GPIO4"
    /\ DigitalPinOf(2) = "GPIO5"
    /\ result.warnings = <<>>

KnownRequestIds == SelectSeq(component_ids, LAMBDA id : id \in CatalogIds)

\* C10 as stated: the sequence of processed components equals the input list with
\* unknown IDs removed, same order and same multiplicity.
C10_ProcessedInRequestOrder ==
    Returned => ProcessedIds = KnownRequestIds

\* C10 amended: the processed components are the catalog's components whose ID
\* occurs in the input list, each once, in the catalog's order; the result's
\* components list and pin_assignments follow it.
C10_ProcessedInCatalogOrder ==
    Returned =>
        \A ids \in {ProcessedIds} :
            /\ Range(ids) = Range(KnownRequestIds)
            /\ \A i, j \in DOMAIN ids :
                  i < j => CatalogPosition(ids[i]) < CatalogPosition(ids[j])
            /\ DOMAIN result.pin_assignments =
                  {id \in Range(ids) : ComponentById(id).wiring # <<>>}
            /\ \A i \in DOMAIN ids :
                  "components" \in DOMAIN result
                  /\ result.components[i].name = ComponentById(ids[i]).name

\* ds18b20 was named before dht22, and dht22 twice: dht22 was processed first and
\* once, and took the pool's first pin.
C10_Witness ==
    /\ Returned
    /\ component_ids = <<"ds18b20", "dht22", "dht22">>
    /\ ProcessedIds = <<"dht22", "ds18b20">>
    /\ result.pin_assignments["dht22"]["DATA"] = "GPIO4"
    /\ result.pin_assignments["ds18b20"]["DATA"] = "GPIO5"

\* C11: when no ID of the request names a component of the catalog, the result
\* is the diagram 'No components selected' with no warnings and no pin
\* assignments.
C11_NothingSelected ==
    (Returned /\ \A i \in DOMAIN component_ids : component_ids[i] \notin CatalogIds)
    => /\ DOMAIN result = {"diagram", "warnings", "pin_assignments"}
       /\ result.diagram = <<<<"No components selected">>>>
       /\ result.warnings = <<>>
       /\ result.pin_assignments = <<>>

\* A request of unknown IDs only has been answered.
C11_Witness ==
    /\ Returned
    /\ component_ids = <<UnknownId, UnknownId>>
    /\ result.diagram = <<<<"No components selected">>>>

\* C12: every request is answered with a result, and the result for a list with
\* unknown IDs is the result for the list without them.
C12_UnknownIdsSkipped ==
    Returned =>
        /\ "diagram" \in DOMAIN result
        /\ KnownRequestIds # component_ids
           => result = generate_ascii_wiring_diagram(KnownRequestIds).returned

\* Known IDs around an unknown one: both components are in the result.
C12_Witness ==
    /\ Returned
    /\ component_ids = <<"relay", UnknownId, "dht22">>
    /\ ProcessedIds = <<"dht22", "relay">>
    /\ result.pin_assignments["relay"]["IN"] = "GPIO5"

\* ---------------------------------------------------------------- pipeline claims

\* C13: a successful generate for a stage leaves current_stage and the record of
\* every other stage as they were.
C13_GenerateTouchesOneRecord ==
    [][(response'.op = "generate" /\ response'.status = 200)
       => /\ project'.current_stage = project.current_stage
          /\ \A s \in DOMAIN project.stages \cup DOMAIN project'.stages :
                s # response'.stage
                => /\ s \in DOMAIN project.stages
                   /\ s \in DOMAIN project'.stages
                   /\ project'.stages[s] = project.stages[s]]_vars

\* A stage that is not the current one has been generated, on a project that
\* has another approved stage with notes.
C13_Witness ==
    /\ response.op = "generate"
    /\ response.status = 200
    /\ response.stage # project.current_stage
    /\ project.current_stage # "idea"
    /\ \E s \in Stages \ {response.stage} : project.stages[s].notes = "n1"

\* C14: the stages map holds a record for each of the seven stages and for
\* nothing else.
C14_OneRecordPerStage ==
    /\ DOMAIN project.stages = Stages
    /\ \A s \in DOMAIN project.stages :
          DOMAIN project.stages[s] = {"content", "generated_at", "user_approved", "notes"}

\* A project that has been generated for and approved on.
C14_Witness ==
    /\ response.op = "approve"
    /\ project.conversation_history # <<>>
    /\ Cardinality(DOMAIN project.stages) = Len(ProjectStage)

C17_CredentialFailureVerbatim ==
    [][response'.op = "generate"
       => \A stage \in Stages, user_message \in UserMessages,
             provider \in {"groq", "openrouter"} :
             generate_stage_content(stage, user_message, provider, None)
             => /\ response'.status = 400
                /\ response'.detail = CredentialMessage(provider)]_vars

\* The processed components with a role on a line of the I2C bus (lines 1187-1191).
I2CSelected ==
    {id \in Range(ProcessedIds) : BusLinesOf[id] \cap {"GPIO21", "GPIO22"} # {}}

\* C18: a selection with two or more components of the I2C bus returns at least
\* one pin-conflict warning.
C18_I2CSelectionWarns ==
    (Returned /\ Cardinality(I2CSelected) >= 2) => ConflictWarningsOf # {}

\* bme280, ssd1306 and lcd1602_i2c were selected: four conflict warnings, two for
\* each I2C line.
C18_Witness ==
    /\ Returned
    /\ component_ids = <<"bme280", "ssd1306", "lcd1602_i2c">>
    /\ I2CSelected = {"bme280", "ssd1306", "lcd1602_i2c"}
    /\ Cardinality(ConflictWarningsOf) = 4
    /\ \A i \in ConflictWarningsOf : ConflictPin(result.warnings[i]) \in {"GPIO21", "GPIO22"}

\* The pins, other than the power labels, that a processed component holds.
ReservedPins(id) == Range(result.pin_assignments[id]) \ PowerLabels

\* C20: a generic-digital role is never assigned a pin that a component
\* processed earlier has reserved.
C20_DigitalRoleSkipsReservedPins ==
    Returned =>
        \A j \in DOMAIN ProcessedIds : \A i \in 1..(j - 1) :
            ComponentById(ProcessedIds[j]).wiring # <<>> /\ ComponentById(ProcessedIds[i]).wiring # <<>>
            => \A r \in RoleNames(ComponentById(ProcessedIds[j])) :
                  IsGenericDigitalRole(r)
                  => result.pin_assignments[ProcessedIds[j]][r] \notin ReservedPins(ProcessedIds[i])

\* C15: a project just created, by create_project or from a template, has
\* current_stage 'idea', an approved idea record holding the idea text, and every
\* other record empty and unapproved.
C15_NewProjectStartsAtIdea ==
    (response.op \in {"create_project", "instantiate_template"} /\ response.status = 200)
    => /\ project.current_stage = "idea"
       /\ project.stages["idea"].user_approved
       /\ project.stages["idea"].content = project.idea
       /\ project.idea \in IdeasIn \cup {PROJECT_TEMPLATES[i].idea : i \in DOMAIN PROJECT_TEMPLATES}
       /\ \A s \in Stages \ {"idea"} :
             project.stages[s] =
                [content |-> None, generated_at |-> None, user_approved |-> FALSE, notes |-> None]

\* A project has been made from the plant_monitor template.
C15_Witness ==
    /\ response.op = "instantiate_template"
    /\ response.status = 200
    /\ project.name = Template_plant_monitor.name
    /\ project.selected_components = Template_plant_monitor.components
    /\ project.stages["idea"].content = Template_plant_monitor.idea

\* C19: generate and approve on the same project are not serialized: a request
\* saves the whole stages map it loaded, changed in its own stage only, whatever
\* another request has saved since the load; so an interleaving loses the other
\* request's change.
C19_SaveWritesLoadedStages ==
    [][\A r \in Requests :
          (inflight[r].pc = "loaded" /\ inflight'[r].pc = "done" /\ inflight'[r].status = 200)
          => \A s \in Stages \ {inflight[r].stage} :
                project'.stages[s] = inflight[r].doc.stages[s]]_vars

\* An approval saved between a generate's load and save has been lost: the
\* approved stage's flag is off again while current_stage stays advanced.
C19_Witness ==
    \E a, g \in Requests :
        /\ inflight[a].pc = "done" /\ inflight[g].pc = "done"
        /\ inflight[a].op = "approve" /\ inflight[a].approved
        /\ inflight[g].op = "generate" /\ inflight[g].status = 200
        /\ inflight[a].stage \notin {"idea", "iteration", inflight[g].stage}
        /\ project.current_stage = StageAfter(inflight[a].stage)
        /\ ~project.stages[inflight[a].stage].user_approved
        /\ project.stages[inflight[g].stage].content = inflight[g].content

\* C25 as stated: every successful generate appends a user turn followed by an
\* assistant turn holding the generated content, both tagged with the stage,
\* after the existing entries, which stay as they were.
C25_GenerateAppendsPair ==
    [][(response'.op = "generate" /\ response'.status = 200)
       => /\ Len(project'.conversation_history) = Len(project.conversation_history) + 2
          /\ SubSeq(project'.conversation_history, 1, Len(project.conversation_history))
                = project.conversation_history
          /\ project'.conversation_history[Len(project.conversation_history) + 1].role = "user"
          /\ project'.conversation_history[Len(project.conversation_history) + 1].stage
                = response'.stage
          /\ project'.conversation_history[Len(project.conversation_history) + 2]
                = [role |-> "assistant", content |-> response'.content,
                   stage |-> response'.stage]]_vars

\* C25, amended: every successful generate appends an assistant turn holding the
\* generated content, tagged with the stage, after the existing entries, which
\* stay as they were; a user turn holding the message, tagged with the stage,
\* comes just before it when the request has a non-empty user message, and no
\* user turn is appended when the message is absent or empty.
C25_GenerateAppendsTurns ==
    [][(response'.op = "generate" /\ response'.status = 200)
       => \A stage \in {response'.stage}, content \in {response'.content} :
             \A user_message \in UserMessages :
                GenerateSucceeds(stage, user_message, content)
                => project'.conversation_history =
                      project.conversation_history
                      \o (IF user_message \in {None, ""} THEN <<>>
                          ELSE <<[role |-> "user", content |-> user_message, stage |-> stage]>>)
                      \o <<[role |-> "assistant", content |-> content, stage |-> stage]>>]_vars

\* Two requests in a row without a user message: the conversation ends with two
\* assistant turns and holds no user turn.
C25_Witness ==
    /\ response.op = "generate"
    /\ response.status = 200
    /\ Len(project.conversation_history) = 2
    /\ \A i \in DOMAIN project.conversation_history :
          project.conversation_history[i].role = "assistant"
    /\ project.conversation_history[2].content = response.content

\* The fields of a project document other than stages, current_stage and updated_at.
OtherFields(doc) ==
    [k \in DOMAIN doc \ {"stages", "current_stage", "updated_at"} |-> doc[k]]

\* C29: approve(stage, approved, notes) sets the approved flag of the named stage
\* and, when notes are supplied, its notes; the content and generated_at of every
\* stage, the records of all other stages and the conversation (with every other
\* field but current_stage and updated_at) stay as they were; notes that are
\* absent or empty leave the stage's notes as they were; current_stage changes
\* only to the stage's successor.
C29_ApproveTouchesFlagAndNotes ==
    [][response'.op = "approve"
       => \A stage \in Stages, approved \in ApprovedIn, notes \in NotesIn :
             (response'.next_stage = NextStage(stage, approved)
                 /\ approve_stage(stage, approved, notes))
             => /\ \A s \in Stages \ {stage} : project'.stages[s] = project.stages[s]
                /\ DOMAIN project'.stages = DOMAIN project.stages
                /\ project'.stages[stage].content = project.stages[stage].content
                /\ project'.stages[stage].generated_at = project.stages[stage].generated_at
                /\ project'.stages[stage].user_approved = approved
                /\ project'.stages[stage].notes =
                      IF notes \in {None, ""} THEN project.stages[stage].notes ELSE notes
                /\ project'.conversation_history = project.conversation_history
                /\ OtherFields(project') = OtherFields(project)
                /\ project'.current_stage # project.current_stage
                      => /\ approved
                         /\ stage # LastStage
                         /\ project'.current_stage = StageAfter(stage)]_vars

\* A stage that held notes has had its flag changed by an approve with no notes:
\* it keeps its notes and nothing else of the stages map has changed.
C29_Witness ==
    /\ response.op = "approve"
    /\ \E s \in Stages \ {"idea"} :
          /\ loaded.stages[s].notes = "n1"
          /\ project.stages[s].notes = "n1"
          /\ loaded.stages[s].user_approved # project.stages[s].user_approved
          /\ project.stages = [loaded.stages EXCEPT ![s].user_approved = ~@]

\* C30 as stated: a stage whose approved flag is true has non-empty content.
C30_ApprovedStageHasContent ==
    \A s \in DOMAIN project.stages :
        project.stages[s].user_approved => project.stages[s].content \notin {None, ""}

\* C30, amended: approve does not look at the stage's content. approve(stage,
\* approved=true) sets the stage's approved flag and, for a stage other than the
\* last, moves current_stage to its successor, with the stage's content left as
\* it was, empty or not.
C30_ApproveIgnoresContent ==
    [][response'.op = "approve"
       => \A stage \in Stages, notes \in NotesIn :
             approve_stage(stage, TRUE, notes)
             => /\ project'.stages[stage].user_approved
                /\ project'.stages[stage].content = project.stages[stage].content
                /\ stage # LastStage => project'.current_stage = StageAfter(stage)]_vars

\* A stage that was never generated has been approved and current_stage has moved
\* past it.
C30_Witness ==
    /\ response.op = "approve"
    /\ \E s \in Stages \ {LastStage} :
          /\ project.stages[s].user_approved
          /\ ~loaded.stages[s].user_approved
          /\ project.stages[s].content = None
          /\ project.stages[s].generated_at = None
          /\ project.current_stage = StageAfter(s)

\* ------------------------------------------------------ longer-catalog claims

\* The entry of a longer catalog with an ID.
PartById(id) == Parts[CHOOSE i \in DOMAIN Parts : Parts[i].id = id]

\* The roles a call over a longer catalog resolved, in the order it took them.
PartRoles ==
    Flatten([i \in DOMAIN component_ids |->
               [k \in DOMAIN PartById(component_ids[i]).wiring |->
                  [id       |-> component_ids[i],
                   name     |-> PartById(component_ids[i]).name,
                   pin_name |-> PartById(component_ids[i]).wiring[k][1]]]])

\* The pin the result gives a resolved role.
PinOf(role) == result.pin_assignments[role.id][role.pin_name]

\* The number of generic-digital roles resolved before the i-th role.
DigitalBefore(roles, i) ==
    Cardinality({j \in 1..(i - 1) : IsGenericDigitalRole(roles[j].pin_name)})

\* The i-th role is a generic-digital role met with the cursor past the pool.
PastPool(roles, i) ==
    /\ IsGenericDigitalRole(roles[i].pin_name)
    /\ DigitalBefore(roles, i) >= Len(ESP32_PIN_MAP.digital_recommended)

\* How often a sequence holds a value.
Count(seq, x) == Cardinality({j \in DOMAIN seq : seq[j] = x})

\* C21: every generic-digital role met once the cursor is past the twelve pins of
\* the pool gets the label "GPIO16" (GPIO<4 + cursor>, the cursor standing at 12),
\* and the warnings hold one "Running low on recommended GPIOs" entry of its
\* component per such role.
C21_PastPoolSyntheticLabel ==
    Returned =>
        \A roles \in {PartRoles} :
            \A i \in DOMAIN roles :
                PastPool(roles, i) =>
                    /\ PinOf(roles[i]) = "GPIO16"
                    /\ Count(result.warnings,
                             <<roles[i].name, ": Running low on recommended GPIOs">>)
                         = Cardinality({j \in DOMAIN roles :
                                          /\ roles[j].id = roles[i].id
                                          /\ PastPool(roles, j)})

\* Both IO expanders are selected: the second one's last roles get "GPIO16", the
\* pin the first one's third generic-digital role holds, and are warned of it.
C21_Witness ==
    /\ Returned
    /\ component_ids = <<"io_a", "io_b">>
    /\ result.pin_assignments["io_a"]["OUT"] = "GPIO16"
    /\ result.pin_assignments["io_b"]["IN4"] = "GPIO16"
    /\ <<"IO Expander B", ": Running low on recommended GPIOs">> \in Range(result.warnings)
    /\ <<"PIN CONFLICT: ", "GPIO16", " used by both ", "io_a", " and ", "IO Expander B">>
          \in Range(result.warnings)

\* A role's name is one of the analog names of line 1203.
IsAnalogRole(pin_name) == Upper(pin_name) \in {"AOUT", "AO", "ANALOG"}

\* The keys of used_pins when the i-th role is resolved: the labels of the roles
\* before it that are no power labels.
KeysBefore(roles, i) == {PinOf(roles[j]) : j \in 1..(i - 1)} \ {"GND", "3.3V", "5V (VIN)"}

\* The positions in adc1 of the pins that are no keys of used_pins at the i-th role.
FreeAdcAt(roles, i) ==
    {n \in DOMAIN ESP32_PIN_MAP.adc1 : ESP32_PIN_MAP.adc1[n] \notin KeysBefore(roles, i)}

\* The i-th role is an analog role met with every pin of adc1 a key of used_pins.
PastAdc(roles, i) == IsAnalogRole(roles[i].pin_name) /\ FreeAdcAt(roles, i) = {}

\* C26: an analog role gets the first pin of GPIO32, GPIO33, GPIO34, GPIO35,
\* GPIO36, GPIO39 that is no key of used_pins when it is resolved; only when all
\* six are keys does it get "GPIO34 (ADC)", and then the warnings hold one "ADC
\* pins limited" entry of its component per such role.
C26_AnalogRoleGetsFirstFreeAdc ==
    Returned =>
        \A roles \in {PartRoles} :
            \A i \in DOMAIN roles :
                IsAnalogRole(roles[i].pin_name) =>
                    \A free \in {FreeAdcAt(roles, i)} :
                        IF free # {}
                        THEN PinOf(roles[i]) =
                                <<"GPIO32", "GPIO33", "GPIO34", "GPIO35", "GPIO36", "GPIO39">>
                                   [CHOOSE n \in free : \A m \in free : n <= m]
                        ELSE /\ PinOf(roles[i]) = "GPIO34 (ADC)"
                             /\ Count(result.warnings,
                                      <<roles[i].name, ": ADC pins limited, may conflict">>)
                                  = Cardinality({j \in DOMAIN roles :
                                                   /\ roles[j].id = roles[i].id
                                                   /\ PastAdc(roles, j)})

\* Seven analog roles: the first six take adc1 in order and the seventh gets the
\* sentinel and the warning.
C26_Witness ==
    /\ Returned
    /\ component_ids = <<"adc_a", "adc_b", "adc_c">>
    /\ result.pin_assignments["adc_a"]["ANALOG"] = "GPIO34"
    /\ result.pin_assignments["adc_b"]["ANALOG"] = "GPIO39"
    /\ result.pin_assignments["adc_c"]["AOUT"] = "GPIO34 (ADC)"
    /\ result.warnings = <<<<"Analog Probe C", ": ADC pins limited, may conflict">>>>

\* ------------------------------------------------------------ conflict claims

\* The processed components that hold a pin on one of their roles, in processing
\* order.
Holders(ids, pin) ==
    SelectSeq(ids, LAMBDA id : /\ id \in DOMAIN result.pin_assignments
                               /\ pin \in Range(result.pin_assignments[id]))

\* The conflict warnings about a pin, in the order of result.warnings.
WarningsAbout(pin) ==
    SelectSeq(result.warnings, LAMBDA w : IsConflictWarning(w) /\ ConflictPin(w) = pin)

\* C22: a conflict is reported and not prevented. For every pin of used_pins, with
\* the components that hold it in pin_assignments taken in processing order: each
\* holder after the first is warned against the holder just before it, all of
\* them keep the pin, and used_pins gives the pin to the last holder.
C22_ConflictReportedNotPrevented ==
    Returned /\ "components" \in DOMAIN result =>
        \A ids \in {ProcessedIds} :
            \A pin \in DOMAIN left_used_pins :
                \A holders \in {Holders(ids, pin)} :
                    /\ holders # <<>>
                    /\ left_used_pins[pin] = holders[Len(holders)]
                    /\ WarningsAbout(pin) =
                          [k \in 1..(Len(holders) - 1) |->
                             <<"PIN CONFLICT: ", pin, " used by both ", holders[k],
                               " and ", ComponentById(holders[k + 1]).name>>]

\* Three components on the I2C bus: the third is warned against the second, the
\* first still holds GPIO21, and used_pins gives GPIO21 to the third.
C22_Witness ==
    /\ Returned
    /\ "components" \in DOMAIN result
    /\ ProcessedIds = <<"bme280", "ssd1306", "lcd1602_i2c">>
    /\ result.pin_assignments["bme280"]["SDA"] = "GPIO21"
    /\ result.pin_assignments["ssd1306"]["SDA"] = "GPIO21"
    /\ left_used_pins["GPIO21"] = "lcd1602_i2c"
    /\ <<"PIN CONFLICT: ", "GPIO21", " used by both ", "ssd1306", " and ",
         "LCD 16x2 with I2C">> \in Range(result.warnings)
    /\ \A i \in DOMAIN result.warnings :
          IsConflictWarning(result.warnings[i]) /\ ConflictOwner(result.warnings[i]) = "bme280"
             => ConflictClaimer(result.warnings[i]) # "LCD 16x2 with I2C"

\* The role names lines 1178-1231 recognize, in upper case.
RecognizedRoles ==
    {"VCC", "VIN", "GND", "SDA", "SDL", "SCL", "MOSI", "SDI", "DIN", "MISO", "SDO",
     "DOUT", "SCK", "CLK", "SCLK", "CS", "AOUT", "AO", "ANALOG", "DC", "RS", "RES",
     "RST", "RESET"} \cup GenericDigitalRoles

\* C23: a role whose name no category recognizes is assigned the catalog's
\* descriptor text and resolves no pin: the text is no key of used_pins and no
\* conflict warning is about it.
C23_UnrecognizedRoleResolvesNoPin ==
    Returned /\ "components" \in DOMAIN result =>
        \A ids \in {ProcessedIds} :
            \A i \in DOMAIN ids :
                \A c \in {ComponentById(ids[i])} :
                    \A k \in DOMAIN c.wiring :
                        Upper(c.wiring[k][1]) \notin RecognizedRoles =>
                            /\ result.pin_assignments[c.id][c.wiring[k][1]] = c.wiring[k][2]
                            /\ c.wiring[k][2] \notin DOMAIN left_used_pins
                            /\ WarningsAbout(c.wiring[k][2]) = <<>>

\* The roles named VCC, VIN or GND of each component of the catalog.
PowerRolesOf ==
    [id \in CatalogIds |-> {r \in RoleNames(ComponentById(id)) : IsPowerRole(r)}]

\* The number of generic-digital roles of each component of the catalog.
DigitalRoleCount ==
    [id \in CatalogIds |->
        Cardinality({r \in RoleNames(ComponentById(id)) : IsGenericDigitalRole(r)})]

\* The number of generic-digital roles of the processed components.
DigitalRolesOf(ids) ==
    LET n[i \in 0..Len(ids)] ==
            IF i = 0 THEN 0 ELSE n[i - 1] + DigitalRoleCount[ids[i]]
    IN  n[Len(ids)]

\* C27: a role named VCC, VIN or GND resolves to "3.3V", "5V (VIN)" or "GND"; none
\* of the three labels is a key of used_pins or the pin of a conflict warning, and
\* the cursor of the digital pool has moved once per generic-digital role, so not
\* for a power role.
C27_PowerRolesReserveNothing ==
    Returned /\ "components" \in DOMAIN result =>
        \A ids \in {ProcessedIds} :
            /\ \A i \in DOMAIN ids :
                  \A r \in PowerRolesOf[ids[i]] :
                      result.pin_assignments[ids[i]][r] \in {"3.3V", "5V (VIN)", "GND"}
            /\ DOMAIN left_used_pins \cap {"3.3V", "5V (VIN)", "GND"} = {}
            /\ \A j \in DOMAIN result.warnings :
                  IsConflictWarning(result.warnings[j]) =>
                      ConflictPin(result.warnings[j]) \notin {"3.3V", "5V (VIN)", "GND"}
            /\ left_next_gpio_idx = DigitalRolesOf(ids)

\* Three components share GND and 3.3V, one of them with a generic-digital role:
\* no warning, and only the digital role's pin is reserved.
C27_Witness ==
    /\ Returned
    /\ "components" \in DOMAIN result
    /\ ProcessedIds = <<"dht22", "pir_motion", "buzzer">>
    /\ \A id \in {"dht22", "pir_motion", "buzzer"} :
          result.pin_assignments[id]["GND"] = "GND"
    /\ result.pin_assignments["dht22"]["VCC"] = "3.3V"
    /\ result.pin_assignments["buzzer"]["VCC"] = "3.3V"
    /\ result.warnings = <<>>
    /\ left_next_gpio_idx = 2

\* The labels of pin_assignments that are no power labels.
HeldLabels ==
    UNION {Range(result.pin_assignments[id]) : id \in DOMAIN result.pin_assignments}
       \ {"GND", "3.3V", "5V (VIN)"}

\* The components that hold a label in pin_assignments.
HoldersOf(label) ==
    {id \in DOMAIN result.pin_assignments : label \in Range(result.pin_assignments[id])}

\* The pins the conflict warnings are about.
WarnedPins == {ConflictPin(result.warnings[i]) : i \in ConflictWarningsOf}

\* C28: in any result, two different components hold the same non-power label in
\* pin_assignments if and only if the warnings have a "PIN CONFLICT" entry for
\* that label.
C28_ConflictWarningIffSharedLabel ==
    Returned /\ "components" \in DOMAIN result =>
        \A warned \in {WarnedPins} :
            /\ \A label \in HeldLabels :
                  Cardinality(HoldersOf(label)) >= 2 <=> label \in warned
            /\ warned \subseteq HeldLabels

\* The display's reset line and the relay's input both hold GPIO4 and the
\* warnings say so; GPIO2 is held by the display alone and no warning is about it.
C28_Witness ==
    /\ Returned
    /\ "components" \in DOMAIN result
    /\ HoldersOf("GPIO4") = {"tft_st7789", "relay"}
    /\ HoldersOf("GPIO2") = {"tft_st7789"}
    /\ WarnedPins = {"GPIO4"}

\* ------------------------------------------------------------ context claims

\* The previous-stage lines of a context, each as <<stage, content>>.
ContextStages(context) ==
    LET lines == SelectSeq(context, LAMBDA line : line[1] = "\n=== ")
    IN  [i \in DOMAIN lines |-> <<lines[i][2], lines[i][4]>>]

\* The stages strictly before a stage that have content in a document, in the
\* fixed order, each as <<stage, content>>.
ContentsBefore(doc, stage) ==
    LET before == SelectSeq(SubSeq(ProjectStage, 1, StagePosition(stage) - 1),
                            LAMBDA s : Truthy(doc.stages[s].content))
    IN  [i \in DOMAIN before |-> <<StageUpper[before[i]], doc.stages[before[i]].content>>]

\* C24: for each of the seven stages, the context a generate request sends to the
\* language model holds the contents of exactly the stages strictly before the
\* request's stage that have content, in the fixed order.
C24_ContextHoldsEarlierContents ==
    \A r \in Requests :
        inflight[r].pc # "idle" /\ inflight[r].op = "generate" =>
            ContextStages(inflight[r].context)
               = ContentsBefore(inflight[r].doc, inflight[r].stage)

====
